---- MODULE Spec2Model ----
(***************************************************************************)
(* Model of the Result algebra of ts-error-handling (src/result.ts): the   *)
(* Ok / Err variants and their methods, the free functions, and the        *)
(* asynchronous functions sequence, parallel, traverseAsync, tryCatchAsync *)
(* and fromPromise.                                                        *)
(*                                                                         *)
(* The library is stateless, so the state of the model is the call under   *)
(* observation: which function was called (fnName), with which arguments   *)
(* (input), what it returned (output) and which callbacks / operations it  *)
(* invoked, in order (calls).  An asynchronous call adds the position of   *)
(* its body (pc, idx, results), the promises of the operations it started  *)
(* (promises, settleLog) and the Promise.all it awaits (pall).  Where the   *)
(* identity or the fields of a Result object matter, heap holds the        *)
(* objects by reference.  _config is the module variable of src/config.ts. *)
(*                                                                         *)
(* Spec has one synchronous call per behaviour, SpecAsync one asynchronous *)
(* call (or tryCatch, beside its asynchronous counterparts), SpecObject    *)
(* one Result object and any sequence of calls on it.                      *)
(***************************************************************************)
EXTENDS Integers, Sequences, FiniteSets

VARIABLES fnName, input, output, calls, heap, _config,
          pc, idx, results, promises, settleLog, pall

vars == <<fnName, input, output, calls, heap, _config,
          pc, idx, results, promises, settleLog, pall>>

asyncVars == <<pc, idx, results, promises, settleLog, pall>>

(***************************************************************************)
(* Bounds of the model.                                                    *)
(***************************************************************************)
MaxLen == 3
MaxPayload == 1

\* Most objects a caller keeps alive.
MaxObjects == 3

\* Most getConfig() calls in one run.
MaxCalls == 3

\* Most method calls on the error handlers in one run.
MaxMethodCalls == 4

\* Payloads (success values, error values, rejection reasons, list items).
Vals == 0..MaxPayload

\* The JavaScript value undefined, which no input of the model carries.
Undefined == -1

\* Lists of at most n elements of S.
SeqsUpTo(S, n) == UNION {[1..k -> S] : k \in 0..n}

(***************************************************************************)
(* The two variants and their constructors.                                *)
(***************************************************************************)
ok(value) == [tag |-> "Ok", value |-> value]

err(error) == [tag |-> "Err", error |-> error]

isOk(r) == r.tag = "Ok"

isErr(r) == r.tag = "Err"

ResultSet == {ok(v) : v \in Vals} \cup {err(e) : e \in Vals}

ResultLists == SeqsUpTo(ResultSet, MaxLen)

\* The functions a caller may pass to map.
MapFns == [Vals -> Vals]

\* The functions a caller may pass to traverse.
TraverseFns == [Vals -> ResultSet]

(***************************************************************************)
(* OkImpl.map / ErrImpl.map                                                *)
(***************************************************************************)
OkImpl_map(this, fn) == ok(fn[this.value])

ErrImpl_mapAppliesFn(this, fn) == err(fn[this.error])

ErrImpl_map(this, fn) == err(this.error)

map(r, fn) == IF isOk(r) THEN OkImpl_map(r, fn) ELSE ErrImpl_map(r, fn)

(***************************************************************************)
(* Callbacks.  A callback passed to the library is a function of its       *)
(* argument; each invocation is logged as [cb, arg], cb naming the         *)
(* parameter the callback was passed as.                                   *)
(***************************************************************************)
Invoke(cb, arg) == [cb |-> cb, arg |-> arg]

\* The log with every entry renamed to cb (to tell the steps of a chain).
Relabel(log, cb) == [k \in DOMAIN log |-> Invoke(cb, log[k].arg)]

\* The invocations of fn that map makes.
OkImpl_mapInvokes(this, fn) == <<Invoke("fn", this.value)>>

ErrImpl_mapInvokes(this, fn) == <<>>

mapInvokes(r, fn) == IF isOk(r) THEN OkImpl_mapInvokes(r, fn) ELSE ErrImpl_mapInvokes(r, fn)

(***************************************************************************)
(* OkImpl.andThen / ErrImpl.andThen: the value returned and the            *)
(* invocations made.                                                       *)
(***************************************************************************)
AndThenFns == [Vals -> ResultSet]

OkImpl_andThenKeepsThis(this, fn) ==
    [ret |-> ok(this.value), calls |-> <<Invoke("fn", this.value)>>]

OkImpl_andThen(this, fn) ==
    [ret |-> fn[this.value], calls |-> <<Invoke("fn", this.value)>>]

ErrImpl_andThenCallsFn(this, fn) ==
    [ret |-> err(this.error), calls |-> <<Invoke("fn", this.error)>>]

ErrImpl_andThen(this, fn) == [ret |-> err(this.error), calls |-> <<>>]

andThen(r, fn) == IF isOk(r) THEN OkImpl_andThen(r, fn) ELSE ErrImpl_andThen(r, fn)

(***************************************************************************)
(* OkImpl.mapErr / ErrImpl.mapErr                                          *)
(***************************************************************************)
OkImpl_mapErr(this, fn) == [ret |-> ok(this.value), calls |-> <<>>]

ErrImpl_mapErr(this, fn) ==
    [ret |-> err(fn[this.error]), calls |-> <<Invoke("fn", this.error)>>]

mapErr(r, fn) == IF isOk(r) THEN OkImpl_mapErr(r, fn) ELSE ErrImpl_mapErr(r, fn)

(***************************************************************************)
(* OkImpl.match / ErrImpl.match: patterns is a record of two callbacks.    *)
(***************************************************************************)
OkImpl_match(this, patterns) ==
    [ret |-> patterns.ok[this.value], calls |-> <<Invoke("ok", this.value)>>]

ErrImpl_match(this, patterns) ==
    [ret |-> patterns.err[this.error], calls |-> <<Invoke("err", this.error)>>]

match(r, patterns) == IF isOk(r) THEN OkImpl_match(r, patterns) ELSE ErrImpl_match(r, patterns)

(***************************************************************************)
(* OkImpl.unwrapOr / ErrImpl.unwrapOr, OkImpl.unwrapOrElse /               *)
(* ErrImpl.unwrapOrElse                                                    *)
(***************************************************************************)
OkImpl_unwrapOr(this, defaultValue) == this.value

ErrImpl_unwrapOr(this, defaultValue) == defaultValue

unwrapOr(r, defaultValue) ==
    IF isOk(r) THEN OkImpl_unwrapOr(r, defaultValue) ELSE ErrImpl_unwrapOr(r, defaultValue)

OkImpl_unwrapOrElse(this, fn) == [ret |-> this.value, calls |-> <<>>]

ErrImpl_unwrapOrElse(this, fn) ==
    [ret |-> fn[this.error], calls |-> <<Invoke("fn", this.error)>>]

unwrapOrElse(r, fn) ==
    IF isOk(r) THEN OkImpl_unwrapOrElse(r, fn) ELSE ErrImpl_unwrapOrElse(r, fn)

(***************************************************************************)
(* combine: the for loop with its early return.                            *)
(***************************************************************************)
RECURSIVE combineLoop(_, _, _)
combineLoop(rs, i, values) ==
    IF i > Len(rs) THEN ok(values)
    ELSE IF isErr(rs[i]) THEN err(rs[i].error)
    ELSE combineLoop(rs, i + 1, Append(values, rs[i].value))

RECURSIVE combineLastErrLoop(_, _, _, _)
combineLastErrLoop(rs, i, values, found) ==
    IF i > Len(rs) THEN (IF found = <<>> THEN ok(values) ELSE err(found[1]))
    ELSE IF isErr(rs[i]) THEN combineLastErrLoop(rs, i + 1, values, <<rs[i].error>>)
    ELSE combineLastErrLoop(rs, i + 1, Append(values, rs[i].value), found)

combineLastErr(rs) == combineLastErrLoop(rs, 1, <<>>, <<>>)

combine(rs) == combineLoop(rs, 1, <<>>)

(***************************************************************************)
(* all: same loop over a homogeneous list.                                 *)
(***************************************************************************)
RECURSIVE allLoop(_, _, _)
allLoop(rs, i, values) ==
    IF i > Len(rs) THEN ok(values)
    ELSE IF isErr(rs[i]) THEN err(rs[i].error)
    ELSE allLoop(rs, i + 1, Append(values, rs[i].value))

all(rs) == allLoop(rs, 1, <<>>)

(***************************************************************************)
(* combineWithAllErrors: scans the whole input, then decides.              *)
(***************************************************************************)
RECURSIVE combineWithAllErrorsLoop(_, _, _, _)
combineWithAllErrorsLoop(rs, i, values, errors) ==
    IF i > Len(rs)
    THEN (IF Len(errors) > 0 THEN err(errors) ELSE ok(values))
    ELSE IF isErr(rs[i])
         THEN combineWithAllErrorsLoop(rs, i + 1, values, Append(errors, rs[i].error))
         ELSE combineWithAllErrorsLoop(rs, i + 1, Append(values, rs[i].value), errors)

RECURSIVE combineWithAllErrorsStopLoop(_, _, _, _)
combineWithAllErrorsStopLoop(rs, i, values, errors) ==
    IF i > Len(rs) \/ Len(errors) > 0
    THEN (IF Len(errors) > 0 THEN err(errors) ELSE ok(values))
    ELSE IF isErr(rs[i])
         THEN combineWithAllErrorsStopLoop(rs, i + 1, values, Append(errors, rs[i].error))
         ELSE combineWithAllErrorsStopLoop(rs, i + 1, Append(values, rs[i].value), errors)

combineWithAllErrorsStop(rs) == combineWithAllErrorsStopLoop(rs, 1, <<>>, <<>>)

RECURSIVE combineWithAllErrorsNewestFirstLoop(_, _, _, _)
combineWithAllErrorsNewestFirstLoop(rs, i, values, errors) ==
    IF i > Len(rs)
    THEN (IF Len(errors) > 0 THEN err(errors) ELSE ok(values))
    ELSE IF isErr(rs[i])
         THEN combineWithAllErrorsNewestFirstLoop(rs, i + 1, values, <<rs[i].error>> \o errors)
         ELSE combineWithAllErrorsNewestFirstLoop(rs, i + 1, Append(values, rs[i].value), errors)

combineWithAllErrorsNewestFirst(rs) == combineWithAllErrorsNewestFirstLoop(rs, 1, <<>>, <<>>)

combineWithAllErrors(rs) == combineWithAllErrorsLoop(rs, 1, <<>>, <<>>)

(***************************************************************************)
(* any: the first Ok, else Err(lastError); lastError starts undefined.     *)
(***************************************************************************)
RECURSIVE anyLoop(_, _, _)
anyLoop(rs, i, lastError) ==
    IF i > Len(rs) THEN err(lastError)
    ELSE IF isOk(rs[i]) THEN rs[i]
    ELSE anyLoop(rs, i + 1, rs[i].error)

RECURSIVE anyFirstErrLoop(_, _, _)
anyFirstErrLoop(rs, i, lastError) ==
    IF i > Len(rs) THEN err(lastError)
    ELSE IF isOk(rs[i]) THEN rs[i]
    ELSE anyFirstErrLoop(rs, i + 1, IF lastError = Undefined THEN rs[i].error ELSE lastError)

anyFirstErr(rs) == anyFirstErrLoop(rs, 1, Undefined)

any(rs) == anyLoop(rs, 1, Undefined)

(***************************************************************************)
(* partition: [oks, errs]                                                  *)
(***************************************************************************)
RECURSIVE partitionLoop(_, _, _, _)
partitionLoop(rs, i, oks, errs) ==
    IF i > Len(rs) THEN <<oks, errs>>
    ELSE IF isOk(rs[i])
         THEN partitionLoop(rs, i + 1, Append(oks, rs[i].value), errs)
         ELSE partitionLoop(rs, i + 1, oks, Append(errs, rs[i].error))

RECURSIVE partitionPrependLoop(_, _, _, _)
partitionPrependLoop(rs, i, oks, errs) ==
    IF i > Len(rs) THEN <<oks, errs>>
    ELSE IF isOk(rs[i])
         THEN partitionPrependLoop(rs, i + 1, Append(oks, rs[i].value), errs)
         ELSE partitionPrependLoop(rs, i + 1, oks, <<rs[i].error>> \o errs)

partitionPrepend(rs) == partitionPrependLoop(rs, 1, <<>>, <<>>)

partition(rs) == partitionLoop(rs, 1, <<>>, <<>>)

(***************************************************************************)
(* traverse: returns the Result and, beside it, the items fn was applied   *)
(* to, in order (the side effect a spy in fn observes).                    *)
(***************************************************************************)
RECURSIVE traverseLoop(_, _, _, _, _)
traverseLoop(items, fn, i, rs, applied) ==
    IF i > Len(items) THEN [ret |-> ok(rs), applied |-> applied]
    ELSE LET result == fn[items[i]]
             seen == Append(applied, i)
         IN  IF isErr(result)
             THEN [ret |-> err(result.error), applied |-> seen]
             ELSE traverseLoop(items, fn, i + 1, Append(rs, result.value), seen)

RECURSIVE traverseEagerLoop(_, _, _, _, _)
traverseEagerLoop(items, fn, i, rs, applied) ==
    IF i > Len(items) THEN [ret |-> rs, applied |-> applied]
    ELSE traverseEagerLoop(items, fn, i + 1, Append(rs, fn[items[i]]), Append(applied, i))

traverseEager(items, fn) ==
    LET mapped == traverseEagerLoop(items, fn, 1, <<>>, <<>>)
    IN  [ret |-> combine(mapped.ret), applied |-> mapped.applied]

traverse(items, fn) == traverseLoop(items, fn, 1, <<>>, <<>>)

(***************************************************************************)
(* Promises.  An operation () => Promise<Result<T, E>> is modelled by what *)
(* the promise it returns settles to: fulfilled with an Ok or an Err, or   *)
(* rejected with a reason.  When it settles is up to the event loop.       *)
(***************************************************************************)
NotInvoked == [state |-> "none"]

Pending == [state |-> "pending"]

Fulfilled(value) == [state |-> "fulfilled", value |-> value]

Rejected(reason) == [state |-> "rejected", reason |-> reason]

Outcomes == {Fulfilled(r) : r \in ResultSet} \cup {Rejected(x) : x \in Vals}

OperationLists == SeqsUpTo(Outcomes, MaxLen)

\* The functions a caller may pass to traverseAsync.
TraverseAsyncFns == [Vals -> Outcomes]

\* An unfilled slot of the values array of Promise.all.
Hole == [tag |-> "hole"]

(***************************************************************************)
(* Returning and throwing.  A call that may throw ends in Return(value) or *)
(* Throw(error).  What is thrown is either a value thrown by a callback    *)
(* of the caller, Thrown(x), or an Error the library constructs,           *)
(* NewError(message).                                                      *)
(***************************************************************************)
Return(value) == [kind |-> "return", value |-> value]

Throw(error) == [kind |-> "throw", error |-> error]

Thrown(x) == [prim |-> x]

NewError(message) == [name |-> "Error", message |-> message]

\* String(v) for the payloads of the model: decimal digits, "undefined".
Digit(d) ==
    CASE d = 0 -> "0" [] d = 1 -> "1" [] d = 2 -> "2" [] d = 3 -> "3" [] d = 4 -> "4"
      [] d = 5 -> "5" [] d = 6 -> "6" [] d = 7 -> "7" [] d = 8 -> "8" [] d = 9 -> "9"

RECURSIVE Decimal(_)
Decimal(n) == IF n < 10 THEN Digit(n) ELSE Decimal(n \div 10) \o Digit(n % 10)

String(v) == IF v = Undefined THEN "undefined" ELSE Decimal(v)

\* What a callback that may throw does on each argument.
Behaviours(S) == {Return(v) : v \in S} \cup {Throw(Thrown(x)) : x \in Vals}

(***************************************************************************)
(* OkImpl.orElse / ErrImpl.orElse: the handler runs inside try, and what   *)
(* it throws is replaced by a new Error.                                   *)
(***************************************************************************)
OrElseFns == [Vals -> Behaviours(ResultSet)]

OkImpl_orElse(this, fn) == [out |-> Return(ok(this.value)), calls |-> <<>>]

ErrImpl_orElse(this, fn) ==
    LET handled == fn[this.error]
    IN  [out |-> IF handled.kind = "throw"
                 THEN Throw(NewError("orElse handler threw: " \o String(handled.error.prim)))
                 ELSE handled,
         calls |-> <<Invoke("fn", this.error)>>]

orElse(r, fn) == IF isOk(r) THEN OkImpl_orElse(r, fn) ELSE ErrImpl_orElse(r, fn)

(***************************************************************************)
(* OkImpl.unwrap / ErrImpl.unwrap, OkImpl.expect / ErrImpl.expect          *)
(***************************************************************************)
OkImpl_unwrap(this) == Return(this.value)

ErrImpl_unwrapNoPayload(this) == Throw(NewError("Called unwrap on an Err value"))

ErrImpl_unwrap(this) ==
    Throw(NewError("Called unwrap on an Err value: " \o String(this.error)))

unwrap(r) == IF isOk(r) THEN OkImpl_unwrap(r) ELSE ErrImpl_unwrap(r)

OkImpl_expect(this, msg) == Return(this.value)

ErrImpl_expect(this, msg) == Throw(NewError(msg \o ": " \o String(this.error)))

expect(r, msg) == IF isOk(r) THEN OkImpl_expect(r, msg) ELSE ErrImpl_expect(r, msg)

(***************************************************************************)
(* tryCatch(fn, errorHandler?): fn is what the wrapped function does when  *)
(* called; errorHandler is absent, or a callback that may itself throw.    *)
(***************************************************************************)
Absent == [present |-> FALSE]

Present(fn) == [present |-> TRUE, fn |-> fn]

TryFns == Behaviours(Vals)

ErrorHandlers == {Absent} \cup {Present(h) : h \in [Vals -> Behaviours(Vals)]}

catchClauseCapturesHandler(caught, errorHandler) ==
    IF errorHandler.present
    THEN LET handled == errorHandler.fn[caught]
         IN  IF handled.kind = "throw" THEN Return(err(handled.error.prim))
             ELSE Return(err(handled.value))
    ELSE Return(err(caught))

\* The catch clause: err(errorHandler ? errorHandler(error) : error).
catchClause(caught, errorHandler) ==
    IF errorHandler.present
    THEN LET handled == errorHandler.fn[caught]
         IN  IF handled.kind = "throw" THEN handled ELSE Return(err(handled.value))
    ELSE Return(err(caught))

tryCatchIgnoresHandler(fn, errorHandler) ==
    IF fn.kind = "return" THEN Return(ok(fn.value)) ELSE Return(err(fn.error.prim))

tryCatch(fn, errorHandler) ==
    IF fn.kind = "return" THEN Return(ok(fn.value))
    ELSE catchClause(fn.error.prim, errorHandler)

(***************************************************************************)
(* unwrapOrThrow / toPromise: mapError is absent, or a function from the   *)
(* error to an Error object of the caller.                                 *)
(***************************************************************************)
CustomError(v) == [name |-> "CustomError", message |-> String(v)]

MapErrorFns == {Absent} \cup {Present(m) : m \in [Vals -> {CustomError(v) : v \in Vals}]}

unwrapOrThrow(result, mapError) ==
    IF isOk(result) THEN Return(result.value)
    ELSE Throw(IF mapError.present THEN mapError.fn[result.error]
               ELSE NewError(String(result.error)))

toPromiseIgnoresMapError(result, mapError) ==
    IF isOk(result) THEN Fulfilled(result.value)
    ELSE Rejected(NewError(String(result.error)))

toPromise(result, mapError) ==
    IF isOk(result) THEN Fulfilled(result.value)
    ELSE Rejected(IF mapError.present THEN mapError.fn[result.error]
                  ELSE NewError(String(result.error)))

(***************************************************************************)
(* tap(result, onOk?, onErr?): result is a reference into the heap h; the  *)
(* callbacks return nothing, so all that matters is whether each is        *)
(* supplied.  The value is the reference returned, the heap afterwards     *)
(* and the invocations made.                                               *)
(***************************************************************************)
Ref(n) == [ref |-> n]

tapReturnsCopy(h, result, onOk, onErr) ==
    [ret |-> Ref(Len(h) + 1),
     heap |-> Append(h, h[result.ref]),
     calls |-> IF isOk(h[result.ref]) /\ onOk
               THEN <<Invoke("onOk", h[result.ref].value)>>
               ELSE IF isErr(h[result.ref]) /\ onErr
                    THEN <<Invoke("onErr", h[result.ref].error)>>
                    ELSE <<>>]

tap(h, result, onOk, onErr) ==
    [ret |-> result,
     heap |-> h,
     calls |-> IF isOk(h[result.ref]) /\ onOk
               THEN <<Invoke("onOk", h[result.ref].value)>>
               ELSE IF isErr(h[result.ref]) /\ onErr
                    THEN <<Invoke("onErr", h[result.ref].error)>>
                    ELSE <<>>]

(***************************************************************************)
(* filter(result, predicate, error)                                        *)
(***************************************************************************)
Predicates == [Vals -> BOOLEAN]

filterReplacesErr(result, predicate, error) ==
    IF isErr(result) THEN [ret |-> err(error), calls |-> <<>>]
    ELSE [ret |-> IF predicate[result.value] THEN result ELSE err(error),
          calls |-> <<Invoke("predicate", result.value)>>]

filter(result, predicate, error) ==
    IF isErr(result) THEN [ret |-> result, calls |-> <<>>]
    ELSE [ret |-> IF predicate[result.value] THEN result ELSE err(error),
          calls |-> <<Invoke("predicate", result.value)>>]

(***************************************************************************)
(* swap, flatten, getOrElse                                                *)
(***************************************************************************)
swapKeepsErr(result) == IF isOk(result) THEN err(result.value) ELSE err(result.error)

swap(result) == IF isOk(result) THEN err(result.value) ELSE ok(result.error)

\* The nested Results flatten is given: an Ok of a Result, or an Err.
NestedSet == {ok(inner) : inner \in ResultSet} \cup {err(e) : e \in Vals}

flattenLosesInnerErr(result) ==
    IF isErr(result) THEN err(result.error)
    ELSE IF isOk(result.value) THEN result.value ELSE ok(result.value.error)

flatten(result) == IF isErr(result) THEN err(result.error) ELSE result.value

getOrElse(result, fn) == IF isOk(result) THEN result.value ELSE fn[result.error]

(***************************************************************************)
(* JavaScript values, as far as fromNullable and isResult tell them apart: *)
(* null (typeof null is "object"), undefined, numbers, booleans, strings,  *)
(* and objects and functions with their own data properties.               *)
(***************************************************************************)
JsNull == [typeof |-> "object", isNull |-> TRUE]

JsUndefined == [typeof |-> "undefined"]

JsNumber(n) == [typeof |-> "number", number |-> n]

JsBoolean(b) == [typeof |-> "boolean", boolean |-> b]

JsString(s) == [typeof |-> "string", string |-> s]

JsObject(props) == [typeof |-> "object", isNull |-> FALSE, props |-> props]

JsFunction(props) == [typeof |-> "function", props |-> props]

Primitives ==
    {JsNull, JsUndefined}
        \cup {JsNumber(n) : n \in Vals}
        \cup {JsBoolean(b) : b \in BOOLEAN}
        \cup {JsString(s) : s \in {"", "Ok", "Err"}}

\* What a _tag property can hold.
TagValues == {JsString(s) : s \in {"Ok", "Err", "ok", ""}} \cup {JsNumber(0), JsNull, JsUndefined}

\* Property tables: no property, a value property only, or a _tag (with or
\* without a value beside it).
PropertyTables ==
    {<<>>}
        \cup {[k \in {"value"} |-> JsNumber(n)] : n \in Vals}
        \cup {[k \in {"_tag"} |-> t] : t \in TagValues}
        \cup {[k \in {"_tag", "value"} |-> IF k = "_tag" THEN t ELSE JsNumber(0)] : t \in TagValues}

JsValues ==
    Primitives
        \cup {JsObject(props) : props \in PropertyTables}
        \cup {JsFunction(props) : props \in PropertyTables}

\* value != null: loose inequality, false of null and of undefined only.
LooselyNotNull(value) == value # JsNull /\ value # JsUndefined

\* value !== null
StrictlyNotNull(value) == value # JsNull

\* if (value): the falsy values are null, undefined, 0, false and "".
Truthy(value) ==
    value \notin {JsNull, JsUndefined, JsNumber(0), JsBoolean(FALSE), JsString("")}

(***************************************************************************)
(* fromNullable(value, error)                                              *)
(***************************************************************************)
fromNullableTruthy(value, error) == IF Truthy(value) THEN ok(value) ELSE err(error)

fromNullable(value, error) == IF LooselyNotNull(value) THEN ok(value) ELSE err(error)

(***************************************************************************)
(* isResult(value)                                                         *)
(***************************************************************************)
isResultAnyTag(value) ==
    /\ value.typeof = "object"
    /\ StrictlyNotNull(value)
    /\ "_tag" \in DOMAIN value.props

isResult(value) ==
    /\ value.typeof = "object"
    /\ StrictlyNotNull(value)
    /\ "_tag" \in DOMAIN value.props
    /\ (value.props["_tag"] = JsString("Ok") \/ value.props["_tag"] = JsString("Err"))

(***************************************************************************)
(* Objects.  new OkImpl(value) / new ErrImpl(error) makes an object of its *)
(* own and returns the reference to it; the fields are written by the      *)
(* constructor only.  Every other return hands back a value or a reference *)
(* the function already holds.                                             *)
(***************************************************************************)
constructInPlace(h, obj) ==
    IF h = <<>> THEN [heap |-> <<obj>>, ret |-> Ref(1)]
    ELSE [heap |-> [h EXCEPT ![1] = obj], ret |-> Ref(1)]

construct(h, obj) == [heap |-> Append(h, obj), ret |-> Ref(Len(h) + 1)]

return(h, v) == [heap |-> h, ret |-> v]

\* The objects an array of references points to.
Deref(h, refs) == [k \in DOMAIN refs |-> h[refs[k].ref]]

(***************************************************************************)
(* tryCatchAsync(fn, errorHandler?) / fromPromise(promise, errorHandler?). *)
(* fn either throws when called or returns a promise; both land in the     *)
(* same catch clause.  An async body that returns fulfils its promise, one *)
(* that throws rejects it.                                                 *)
(***************************************************************************)
PromiseOutcomes == {Fulfilled(v) : v \in Vals} \cup {Rejected(x) : x \in Vals}

AsyncTryFns == {Throw(Thrown(x)) : x \in Vals} \cup PromiseOutcomes

ThrowsWhenCalled(fn) == "kind" \in DOMAIN fn

asyncReturn(out) ==
    IF out.kind = "return" THEN Fulfilled(out.value) ELSE Rejected(out.error.prim)

tryCatchAsyncLetsReject(settled, errorHandler) ==
    IF settled.state = "fulfilled" THEN Fulfilled(ok(settled.value))
    ELSE Rejected(settled.reason)

\* The body of tryCatchAsync once `await fn()` has settled.
tryCatchAsyncAfterAwait(settled, errorHandler) ==
    IF settled.state = "fulfilled" THEN Fulfilled(ok(settled.value))
    ELSE asyncReturn(catchClause(settled.reason, errorHandler))

(***************************************************************************)
(* sequence: the body of the for loop after `await op()` has produced      *)
(* result for operation i of n, with rs the results pushed so far.  It     *)
(* tells where the body goes: done with a settled return value, or on to   *)
(* invoke operation `start` and await it.                                  *)
(***************************************************************************)
sequenceStepNoStop(result, rs, i, n) ==
    LET pushed == IF isErr(result) THEN rs ELSE Append(rs, result.value)
    IN  IF i < n
        THEN [pc |-> "await", ret |-> Pending, results |-> pushed, start |-> i + 1]
        ELSE [pc |-> "done", ret |-> Fulfilled(ok(pushed)), results |-> pushed, start |-> 0]

sequenceStepPrepends(result, rs, i, n) ==
    IF isErr(result)
    THEN [pc |-> "done", ret |-> Fulfilled(err(result.error)), results |-> rs, start |-> 0]
    ELSE LET pushed == <<result.value>> \o rs
         IN  IF i < n
             THEN [pc |-> "await", ret |-> Pending, results |-> pushed, start |-> i + 1]
             ELSE [pc |-> "done", ret |-> Fulfilled(ok(pushed)), results |-> pushed, start |-> 0]

sequenceStep(result, rs, i, n) ==
    IF isErr(result)
    THEN [pc |-> "done", ret |-> Fulfilled(err(result.error)), results |-> rs, start |-> 0]
    ELSE LET pushed == Append(rs, result.value)
         IN  IF i < n
             THEN [pc |-> "await", ret |-> Pending, results |-> pushed, start |-> i + 1]
             ELSE [pc |-> "done", ret |-> Fulfilled(ok(pushed)), results |-> pushed, start |-> 0]

(***************************************************************************)
(* traverseAsync: the same loop body over fn(item).                        *)
(***************************************************************************)
traverseAsyncStep(result, rs, i, n) ==
    IF isErr(result)
    THEN [pc |-> "done", ret |-> Fulfilled(err(result.error)), results |-> rs, start |-> 0]
    ELSE LET pushed == Append(rs, result.value)
         IN  IF i < n
             THEN [pc |-> "await", ret |-> Pending, results |-> pushed, start |-> i + 1]
             ELSE [pc |-> "done", ret |-> Fulfilled(ok(pushed)), results |-> pushed, start |-> 0]

(***************************************************************************)
(* parallel: operations.map(op => op()) invokes every operation, in input  *)
(* order, before anything is awaited; the value is the invocation log.     *)
(***************************************************************************)
invokeFirstOnly(ops) == IF ops = <<>> THEN <<>> ELSE <<1>>

invokeAll(ops) == [i \in 1..Len(ops) |-> i]

(***************************************************************************)
(* parallel: Promise.all over the promises of the operations.  It starts   *)
(* fulfilled for no promise, else pending with one slot per promise; a     *)
(* fulfilment is stored at the index of its promise, the last one fulfils  *)
(* the whole; the first rejection, in time, rejects the whole.             *)
(***************************************************************************)
promiseAll(n) ==
    IF n = 0 THEN [state |-> "fulfilled", values |-> <<>>]
    ELSE [state |-> "pending", values |-> [i \in 1..n |-> Hole]]

promiseAllInCompletionOrder(pa, i, outcome) ==
    IF pa.state # "pending" THEN pa
    ELSE IF outcome.state = "rejected" THEN [state |-> "rejected", reason |-> outcome.reason]
    ELSE LET slot == CHOOSE k \in DOMAIN pa.values :
                        pa.values[k] = Hole /\ \A j \in 1..(k - 1) : pa.values[j] # Hole
             values == [pa.values EXCEPT ![slot] = outcome.value]
         IN  [state |-> IF \E k \in DOMAIN values : values[k] = Hole
                        THEN "pending" ELSE "fulfilled",
              values |-> values]

promiseAllOnSettle(pa, i, outcome) ==
    IF pa.state # "pending" THEN pa
    ELSE IF outcome.state = "rejected" THEN [state |-> "rejected", reason |-> outcome.reason]
    ELSE LET values == [pa.values EXCEPT ![i] = outcome.value]
         IN  [state |-> IF \E k \in DOMAIN values : values[k] = Hole
                        THEN "pending" ELSE "fulfilled",
              values |-> values]

\* The await of parallel has been resumed with the settled Promise.all: a
\* rejection is thrown out of the async body, the values go to combine.
parallelReturnCatches(pa) ==
    IF pa.state = "rejected" THEN Fulfilled(err(pa.reason))
    ELSE Fulfilled(combine(pa.values))

parallelReturnLastErr(pa) ==
    IF pa.state = "rejected" THEN Rejected(pa.reason)
    ELSE Fulfilled(combineLastErr(pa.values))

parallelReturn(pa) ==
    IF pa.state = "rejected" THEN Rejected(pa.reason)
    ELSE Fulfilled(combine(pa.values))

(***************************************************************************)
(* Initial state: no call made.                                            *)
(***************************************************************************)
NoCall == "none"

Init ==
    /\ fnName = NoCall
    /\ input = <<>>
    /\ output = <<>>
    /\ calls = <<>>
    /\ heap = <<>>
    /\ _config = JsNull
    /\ pc = "idle"
    /\ idx = 0
    /\ results = <<>>
    /\ promises = <<>>
    /\ settleLog = <<>>
    /\ pall = [state |-> "none"]

(***************************************************************************)
(* Synchronous calls: one action per library function.                     *)
(***************************************************************************)
CallCombine ==
    /\ fnName = NoCall
    /\ \E rs \in ResultLists :
        /\ fnName' = "combine"
        /\ input' = rs
        /\ output' = combine(rs)
        /\ calls' = <<>>
        /\ UNCHANGED <<asyncVars, heap, _config>>

CallAll ==
    /\ fnName = NoCall
    /\ \E rs \in ResultLists :
        /\ fnName' = "all"
        /\ input' = rs
        /\ output' = all(rs)
        /\ calls' = <<>>
        /\ UNCHANGED <<asyncVars, heap, _config>>

CallCombineWithAllErrors ==
    /\ fnName = NoCall
    /\ \E rs \in ResultLists :
        /\ fnName' = "combineWithAllErrors"
        /\ input' = rs
        /\ output' = combineWithAllErrors(rs)
        /\ calls' = <<>>
        /\ UNCHANGED <<asyncVars, heap, _config>>

CallAny ==
    /\ fnName = NoCall
    /\ \E rs \in ResultLists :
        /\ fnName' = "any"
        /\ input' = rs
        /\ output' = any(rs)
        /\ calls' = <<>>
        /\ UNCHANGED <<asyncVars, heap, _config>>

CallPartition ==
    /\ fnName = NoCall
    /\ \E rs \in ResultLists :
        /\ fnName' = "partition"
        /\ input' = rs
        /\ output' = partition(rs)
        /\ calls' = <<>>
        /\ UNCHANGED <<asyncVars, heap, _config>>

CallTraverse ==
    /\ fnName = NoCall
    /\ \E items \in SeqsUpTo(Vals, MaxLen), fn \in TraverseFns :
        LET run == traverse(items, fn)
        IN  /\ fnName' = "traverse"
            /\ input' = [items |-> items, fn |-> fn]
            /\ output' = run.ret
            /\ calls' = run.applied
            /\ UNCHANGED <<asyncVars, heap, _config>>

\* r.map(fn)
CallMap ==
    /\ fnName = NoCall
    /\ \E r \in ResultSet, fn \in MapFns :
        /\ fnName' = "map"
        /\ input' = [r |-> r, fn |-> fn]
        /\ output' = map(r, fn)
        /\ calls' = mapInvokes(r, fn)
        /\ UNCHANGED <<asyncVars, heap, _config>>

\* r.map(f).map(g)
CallMapMap ==
    /\ fnName = NoCall
    /\ \E r \in ResultSet, f \in MapFns, g \in MapFns :
        /\ fnName' = "map.map"
        /\ input' = [r |-> r, f |-> f, g |-> g]
        /\ output' = map(map(r, f), g)
        /\ calls' = <<>>
        /\ UNCHANGED <<asyncVars, heap, _config>>

\* r.andThen(fn)
CallAndThen ==
    /\ fnName = NoCall
    /\ \E r \in ResultSet, fn \in AndThenFns :
        LET e == andThen(r, fn)
        IN  /\ fnName' = "andThen"
            /\ input' = [r |-> r, fn |-> fn]
            /\ output' = e.ret
            /\ calls' = e.calls
            /\ UNCHANGED <<asyncVars, heap, _config>>

\* r.andThen(f).andThen(g)
CallAndThenAndThen ==
    /\ fnName = NoCall
    /\ \E r \in ResultSet, f \in AndThenFns, g \in AndThenFns :
        LET first == andThen(r, f)
            second == andThen(first.ret, g)
        IN  /\ fnName' = "andThen.andThen"
            /\ input' = [r |-> r, f |-> f, g |-> g]
            /\ output' = second.ret
            /\ calls' = Relabel(first.calls, "f") \o Relabel(second.calls, "g")
            /\ UNCHANGED <<asyncVars, heap, _config>>

\* r.mapErr(fn)
CallMapErr ==
    /\ fnName = NoCall
    /\ \E r \in ResultSet, fn \in MapFns :
        LET e == mapErr(r, fn)
        IN  /\ fnName' = "mapErr"
            /\ input' = [r |-> r, fn |-> fn]
            /\ output' = e.ret
            /\ calls' = e.calls
            /\ UNCHANGED <<asyncVars, heap, _config>>

\* r.match({ ok, err })
CallMatch ==
    /\ fnName = NoCall
    /\ \E r \in ResultSet, onOk \in MapFns, onErr \in MapFns :
        LET e == match(r, [ok |-> onOk, err |-> onErr])
        IN  /\ fnName' = "match"
            /\ input' = [r |-> r, patterns |-> [ok |-> onOk, err |-> onErr]]
            /\ output' = e.ret
            /\ calls' = e.calls
            /\ UNCHANGED <<asyncVars, heap, _config>>

\* r.unwrapOrElse(fn)
CallUnwrapOrElse ==
    /\ fnName = NoCall
    /\ \E r \in ResultSet, fn \in MapFns :
        LET e == unwrapOrElse(r, fn)
        IN  /\ fnName' = "unwrapOrElse"
            /\ input' = [r |-> r, fn |-> fn]
            /\ output' = e.ret
            /\ calls' = e.calls
            /\ UNCHANGED <<asyncVars, heap, _config>>

\* r.orElse(fn)
CallOrElse ==
    /\ fnName = NoCall
    /\ \E r \in ResultSet, fn \in OrElseFns :
        LET e == orElse(r, fn)
        IN  /\ fnName' = "orElse"
            /\ input' = [r |-> r, fn |-> fn]
            /\ output' = e.out
            /\ calls' = e.calls
            /\ UNCHANGED <<asyncVars, heap, _config>>

\* r.unwrap()
CallUnwrap ==
    /\ fnName = NoCall
    /\ \E r \in ResultSet :
        /\ fnName' = "unwrap"
        /\ input' = [r |-> r]
        /\ output' = unwrap(r)
        /\ calls' = <<>>
        /\ UNCHANGED <<asyncVars, heap, _config>>

CallTryCatch ==
    /\ fnName = NoCall
    /\ \E fn \in TryFns, errorHandler \in ErrorHandlers :
        /\ fnName' = "tryCatch"
        /\ input' = [fn |-> fn, errorHandler |-> errorHandler]
        /\ output' = tryCatch(fn, errorHandler)
        /\ calls' = <<>>
        /\ UNCHANGED <<asyncVars, heap, _config>>

CallUnwrapOrThrow ==
    /\ fnName = NoCall
    /\ \E r \in ResultSet, mapError \in MapErrorFns :
        /\ fnName' = "unwrapOrThrow"
        /\ input' = [result |-> r, mapError |-> mapError]
        /\ output' = unwrapOrThrow(r, mapError)
        /\ calls' = <<>>
        /\ UNCHANGED <<asyncVars, heap, _config>>

\* toPromise is not an async function: the promise it returns is settled
\* when it returns.
CallToPromise ==
    /\ fnName = NoCall
    /\ \E r \in ResultSet, mapError \in MapErrorFns :
        /\ fnName' = "toPromise"
        /\ input' = [result |-> r, mapError |-> mapError]
        /\ output' = toPromise(r, mapError)
        /\ calls' = <<>>
        /\ UNCHANGED <<asyncVars, heap, _config>>

\* The caller holds one Result object, at reference 1, and passes it.
CallTap ==
    /\ fnName = NoCall
    /\ \E r \in ResultSet, onOk \in BOOLEAN, onErr \in BOOLEAN :
        LET e == tap(<<r>>, Ref(1), onOk, onErr)
        IN  /\ fnName' = "tap"
            /\ input' = [result |-> r, onOk |-> onOk, onErr |-> onErr]
            /\ output' = e.ret
            /\ heap' = e.heap
            /\ calls' = e.calls
            /\ UNCHANGED <<asyncVars, _config>>

CallFilter ==
    /\ fnName = NoCall
    /\ \E r \in ResultSet, predicate \in Predicates, error \in Vals :
        LET e == filter(r, predicate, error)
        IN  /\ fnName' = "filter"
            /\ input' = [result |-> r, predicate |-> predicate, error |-> error]
            /\ output' = e.ret
            /\ calls' = e.calls
            /\ UNCHANGED <<asyncVars, heap, _config>>

CallSwap ==
    /\ fnName = NoCall
    /\ \E r \in ResultSet :
        /\ fnName' = "swap"
        /\ input' = [result |-> r]
        /\ output' = swap(r)
        /\ calls' = <<>>
        /\ UNCHANGED <<asyncVars, heap, _config>>

\* swap(swap(result))
CallSwapSwap ==
    /\ fnName = NoCall
    /\ \E r \in ResultSet :
        /\ fnName' = "swap.swap"
        /\ input' = [result |-> r]
        /\ output' = swap(swap(r))
        /\ calls' = <<>>
        /\ UNCHANGED <<asyncVars, heap, _config>>

CallFromNullable ==
    /\ fnName = NoCall
    /\ \E value \in JsValues, error \in Vals :
        /\ fnName' = "fromNullable"
        /\ input' = [value |-> value, error |-> error]
        /\ output' = fromNullable(value, error)
        /\ calls' = <<>>
        /\ UNCHANGED <<asyncVars, heap, _config>>

CallFlatten ==
    /\ fnName = NoCall
    /\ \E nested \in NestedSet :
        /\ fnName' = "flatten"
        /\ input' = [result |-> nested]
        /\ output' = flatten(nested)
        /\ calls' = <<>>
        /\ UNCHANGED <<asyncVars, heap, _config>>

CallIsResult ==
    /\ fnName = NoCall
    /\ \E value \in JsValues :
        /\ fnName' = "isResult"
        /\ input' = [value |-> value]
        /\ output' = isResult(value)
        /\ calls' = <<>>
        /\ UNCHANGED <<asyncVars, heap, _config>>

\* combine(rs) and combineWithAllErrors(rs) on the same array.
CallCombineBoth ==
    /\ fnName = NoCall
    /\ \E rs \in ResultLists :
        /\ fnName' = "combine,combineWithAllErrors"
        /\ input' = rs
        /\ output' = [combine |-> combine(rs),
                      combineWithAllErrors |-> combineWithAllErrors(rs)]
        /\ calls' = <<>>
        /\ UNCHANGED <<asyncVars, heap, _config>>

Next ==
    \/ CallCombine
    \/ CallAll
    \/ CallCombineWithAllErrors
    \/ CallAny
    \/ CallPartition
    \/ CallTraverse
    \/ CallMap
    \/ CallMapMap
    \/ CallAndThen
    \/ CallAndThenAndThen
    \/ CallMapErr
    \/ CallMatch
    \/ CallUnwrapOrElse
    \/ CallOrElse
    \/ CallUnwrap
    \/ CallTryCatch
    \/ CallUnwrapOrThrow
    \/ CallToPromise
    \/ CallTap
    \/ CallFilter
    \/ CallSwap
    \/ CallSwapSwap
    \/ CallFromNullable
    \/ CallFlatten
    \/ CallIsResult
    \/ CallCombineBoth

Spec == Init /\ [][Next]_vars

(***************************************************************************)
(* Asynchronous calls.  A call runs to its first await; the promise of a   *)
(* started operation settles at any later time; the body resumes once the  *)
(* promise it awaits is settled.                                           *)
(***************************************************************************)
\* The outcome of the i-th operation of the call under observation.
Operation(i) ==
    CASE fnName = "traverseAsync" -> input.fn[input.items[i]]
      [] fnName = "tryCatchAsync" -> input.fn
      [] fnName = "fromPromise" -> input.promise
      [] OTHER -> input[i]

NumOps == IF fnName = "traverseAsync" THEN Len(input.items) ELSE Len(input)

\* The promises after the operations in log have been invoked, out of n.
Started(log, n) ==
    [i \in 1..n |-> IF \E k \in DOMAIN log : log[k] = i THEN Pending ELSE NotInvoked]

CallSequence ==
    /\ fnName = NoCall
    /\ \E ops \in OperationLists :
        /\ fnName' = "sequence"
        /\ input' = ops
        /\ results' = <<>>
        /\ IF ops = <<>>
           THEN /\ output' = Fulfilled(ok(<<>>))
                /\ pc' = "done"
                /\ idx' = 0
                /\ calls' = <<>>
           ELSE /\ output' = Pending
                /\ pc' = "await"
                /\ idx' = 1
                /\ calls' = <<1>>
        /\ promises' = Started(calls', Len(ops))
        /\ UNCHANGED <<settleLog, pall, heap, _config>>

ResumeSequence ==
    /\ fnName = "sequence"
    /\ pc = "await"
    /\ promises[idx].state \in {"fulfilled", "rejected"}
    /\ IF promises[idx].state = "rejected"
       THEN /\ output' = Rejected(promises[idx].reason)
            /\ pc' = "done"
            /\ UNCHANGED <<idx, results, calls, promises>>
       ELSE LET step == sequenceStep(promises[idx].value, results, idx, NumOps)
            IN  /\ output' = step.ret
                /\ pc' = step.pc
                /\ results' = step.results
                /\ IF step.pc = "await"
                   THEN /\ idx' = step.start
                        /\ calls' = Append(calls, step.start)
                        /\ promises' = [promises EXCEPT ![step.start] = Pending]
                   ELSE UNCHANGED <<idx, calls, promises>>
    /\ UNCHANGED <<fnName, input, settleLog, pall, heap, _config>>

CallTraverseAsync ==
    /\ fnName = NoCall
    /\ \E items \in SeqsUpTo(Vals, MaxLen), fn \in TraverseAsyncFns :
        /\ fnName' = "traverseAsync"
        /\ input' = [items |-> items, fn |-> fn]
        /\ results' = <<>>
        /\ IF items = <<>>
           THEN /\ output' = Fulfilled(ok(<<>>))
                /\ pc' = "done"
                /\ idx' = 0
                /\ calls' = <<>>
           ELSE /\ output' = Pending
                /\ pc' = "await"
                /\ idx' = 1
                /\ calls' = <<1>>
        /\ promises' = Started(calls', Len(items))
        /\ UNCHANGED <<settleLog, pall, heap, _config>>

ResumeTraverseAsync ==
    /\ fnName = "traverseAsync"
    /\ pc = "await"
    /\ promises[idx].state \in {"fulfilled", "rejected"}
    /\ IF promises[idx].state = "rejected"
       THEN /\ output' = Rejected(promises[idx].reason)
            /\ pc' = "done"
            /\ UNCHANGED <<idx, results, calls, promises>>
       ELSE LET step == traverseAsyncStep(promises[idx].value, results, idx, NumOps)
            IN  /\ output' = step.ret
                /\ pc' = step.pc
                /\ results' = step.results
                /\ IF step.pc = "await"
                   THEN /\ idx' = step.start
                        /\ calls' = Append(calls, step.start)
                        /\ promises' = [promises EXCEPT ![step.start] = Pending]
                   ELSE UNCHANGED <<idx, calls, promises>>
    /\ UNCHANGED <<fnName, input, settleLog, pall, heap, _config>>

CallParallel ==
    /\ fnName = NoCall
    /\ \E ops \in OperationLists :
        /\ fnName' = "parallel"
        /\ input' = ops
        /\ calls' = invokeAll(ops)
        /\ promises' = Started(calls', Len(ops))
        /\ pall' = promiseAll(Len(ops))
        /\ output' = Pending
        /\ pc' = "await"
        /\ UNCHANGED <<idx, results, settleLog, heap, _config>>

ResumeParallel ==
    /\ fnName = "parallel"
    /\ pc = "await"
    /\ pall.state \in {"fulfilled", "rejected"}
    /\ output' = parallelReturn(pall)
    /\ pc' = "done"
    /\ UNCHANGED <<fnName, input, calls, idx, results, promises, settleLog, pall, heap, _config>>

CallTryCatchAsync ==
    /\ fnName = NoCall
    /\ \E fn \in AsyncTryFns, errorHandler \in ErrorHandlers :
        /\ fnName' = "tryCatchAsync"
        /\ input' = [fn |-> fn, errorHandler |-> errorHandler]
        /\ calls' = <<1>>
        /\ IF ThrowsWhenCalled(fn)
           THEN /\ output' = asyncReturn(catchClause(fn.error.prim, errorHandler))
                /\ pc' = "done"
                /\ promises' = <<>>
           ELSE /\ output' = Pending
                /\ pc' = "await"
                /\ promises' = <<Pending>>
        /\ UNCHANGED <<idx, results, settleLog, pall, heap, _config>>

ResumeTryCatchAsync ==
    /\ fnName = "tryCatchAsync"
    /\ pc = "await"
    /\ promises[1].state \in {"fulfilled", "rejected"}
    /\ output' = tryCatchAsyncAfterAwait(promises[1], input.errorHandler)
    /\ pc' = "done"
    /\ UNCHANGED <<fnName, input, calls, idx, results, promises, settleLog, pall, heap, _config>>

\* fromPromise returns tryCatchAsync(() => promise, errorHandler): the
\* promise is the caller's, no operation is invoked.
CallFromPromise ==
    /\ fnName = NoCall
    /\ \E promise \in PromiseOutcomes, errorHandler \in ErrorHandlers :
        /\ fnName' = "fromPromise"
        /\ input' = [promise |-> promise, errorHandler |-> errorHandler]
        /\ calls' = <<>>
        /\ output' = Pending
        /\ pc' = "await"
        /\ promises' = <<Pending>>
        /\ UNCHANGED <<idx, results, settleLog, pall, heap, _config>>

ResumeFromPromise ==
    /\ fnName = "fromPromise"
    /\ pc = "await"
    /\ promises[1].state \in {"fulfilled", "rejected"}
    /\ output' = tryCatchAsyncAfterAwait(promises[1], input.errorHandler)
    /\ pc' = "done"
    /\ UNCHANGED <<fnName, input, calls, idx, results, promises, settleLog, pall, heap, _config>>


\* The event loop settles the promise of a started operation; the reaction
\* of Promise.all, if one watches the promise, runs with the settlement.
Settle ==
    \E i \in DOMAIN promises :
        /\ promises[i] = Pending
        /\ promises' = [promises EXCEPT ![i] = Operation(i)]
        /\ settleLog' = Append(settleLog, i)
        /\ pall' = IF fnName = "parallel" THEN promiseAllOnSettle(pall, i, Operation(i)) ELSE pall
        /\ UNCHANGED <<fnName, input, output, calls, pc, idx, results, heap, _config>>

NextAsync ==
    \/ CallSequence
    \/ ResumeSequence
    \/ CallTraverseAsync
    \/ ResumeTraverseAsync
    \/ CallParallel
    \/ ResumeParallel
    \/ CallTryCatchAsync
    \/ ResumeTryCatchAsync
    \/ CallFromPromise
    \/ ResumeFromPromise
    \/ CallTryCatch
    \/ Settle

SpecAsync == Init /\ [][NextAsync]_vars

(***************************************************************************)
(* One Result object and the calls made on it.  The caller constructs r,   *)
(* keeps it at reference 1, and applies the methods and the free functions *)
(* to it in any order; input.r records what r was constructed with.        *)
(***************************************************************************)
Construct ==
    /\ fnName = NoCall
    /\ \E r \in ResultSet :
        LET e == construct(heap, r)
        IN  /\ fnName' = IF isOk(r) THEN "ok" ELSE "err"
            /\ input' = [r |-> r]
            /\ output' = e.ret
            /\ heap' = e.heap
            /\ UNCHANGED <<calls, asyncVars, _config>>

Live == heap # <<>> /\ Len(heap) < MaxObjects

\* The call name(...) ends with the heap and the return value of e.
Applied(name, e) ==
    /\ fnName' = name
    /\ output' = e.ret
    /\ heap' = e.heap
    /\ UNCHANGED <<input, calls, asyncVars, _config>>

\* The arrays the caller passes: r alone, or r beside one of the objects
\* it holds, in either order.
RefLists ==
    {<<Ref(1)>>}
        \cup {<<Ref(1), Ref(k)>> : k \in DOMAIN heap}
        \cup {<<Ref(k), Ref(1)>> : k \in DOMAIN heap}

\* A callback is called at most once in a call on r, with r's payload: it is
\* given by what it does then.
Always(S) == {[x \in Vals |-> b] : b \in S}

ApplyMap ==
    Live /\ \E fn \in Always(Vals) : Applied("map", construct(heap, map(heap[1], fn)))

ApplyMapErr ==
    Live /\ \E fn \in Always(Vals) : Applied("mapErr", construct(heap, mapErr(heap[1], fn).ret))

\* The Result fn returns is an object fn made.
ApplyAndThen ==
    Live /\ \E fn \in Always(ResultSet) : Applied("andThen", construct(heap, andThen(heap[1], fn).ret))

ApplyOrElse ==
    Live /\ \E fn \in Always(Behaviours(ResultSet)) :
        LET out == orElse(heap[1], fn).out
        IN  Applied("orElse", IF out.kind = "return" THEN construct(heap, out.value)
                              ELSE return(heap, out))

ApplyMatch ==
    Live /\ \E onOk \in Always(Vals), onErr \in Always(Vals) :
        Applied("match", return(heap, match(heap[1], [ok |-> onOk, err |-> onErr]).ret))

ApplyUnwrap ==
    Live /\ Applied("unwrap", return(heap, unwrap(heap[1])))

ApplyUnwrapOr ==
    Live /\ \E defaultValue \in Vals :
        Applied("unwrapOr", return(heap, unwrapOr(heap[1], defaultValue)))

ApplyUnwrapOrElse ==
    Live /\ \E fn \in Always(Vals) :
        Applied("unwrapOrElse", return(heap, unwrapOrElse(heap[1], fn).ret))

ApplyExpect ==
    Live /\ Applied("expect", return(heap, expect(heap[1], "expected")))

ApplyCombine ==
    Live /\ \E rs \in RefLists :
        Applied("combine", construct(heap, combine(Deref(heap, rs))))

ApplyCombineWithAllErrors ==
    Live /\ \E rs \in RefLists :
        Applied("combineWithAllErrors",
                construct(heap, combineWithAllErrors(Deref(heap, rs))))

ApplyAll ==
    Live /\ \E rs \in RefLists :
        Applied("all", construct(heap, all(Deref(heap, rs))))

\* any returns the first Ok of the array itself, not a copy of it.
ApplyAny ==
    Live /\ \E rs \in RefLists :
        LET objs == Deref(heap, rs)
        IN  Applied("any",
                    IF \E k \in DOMAIN objs : isOk(objs[k])
                    THEN return(heap, rs[CHOOSE k \in DOMAIN objs :
                                     isOk(objs[k]) /\ \A j \in 1..(k - 1) : isErr(objs[j])])
                    ELSE construct(heap, any(objs)))

ApplyPartition ==
    Live /\ \E rs \in RefLists :
        Applied("partition", return(heap, partition(Deref(heap, rs))))

\* flatten(ok(r)): the caller wraps r, flatten hands r back.
ApplyFlatten ==
    /\ Live
    /\ LET outer == construct(heap, ok(Ref(1)))
       IN  Applied("flatten", return(outer.heap, flatten(outer.heap[outer.ret.ref])))

ApplySwap ==
    Live /\ Applied("swap", construct(heap, swap(heap[1])))

\* filter returns result itself unless the predicate fails.
ApplyFilter ==
    Live /\ \E predicate \in Always(BOOLEAN), error \in Vals :
        LET ret == filter(heap[1], predicate, error).ret
        IN  Applied("filter", IF ret = heap[1] THEN return(heap, Ref(1))
                              ELSE construct(heap, ret))

ApplyTap ==
    Live /\ \E onOk \in BOOLEAN, onErr \in BOOLEAN :
        Applied("tap", tap(heap, Ref(1), onOk, onErr))

ApplyGetOrElse ==
    Live /\ \E fn \in Always(Vals) : Applied("getOrElse", return(heap, getOrElse(heap[1], fn)))

ApplyUnwrapOrThrow ==
    Live /\ \E mapError \in MapErrorFns :
        Applied("unwrapOrThrow", return(heap, unwrapOrThrow(heap[1], mapError)))

ApplyToPromise ==
    Live /\ \E mapError \in MapErrorFns :
        Applied("toPromise", return(heap, toPromise(heap[1], mapError)))

NextObject ==
    \/ Construct
    \/ ApplyMap
    \/ ApplyMapErr
    \/ ApplyAndThen
    \/ ApplyOrElse
    \/ ApplyMatch
    \/ ApplyUnwrap
    \/ ApplyUnwrapOr
    \/ ApplyUnwrapOrElse
    \/ ApplyExpect
    \/ ApplyCombine
    \/ ApplyCombineWithAllErrors
    \/ ApplyAll
    \/ ApplyAny
    \/ ApplyPartition
    \/ ApplyFlatten
    \/ ApplySwap
    \/ ApplyFilter
    \/ ApplyTap
    \/ ApplyGetOrElse
    \/ ApplyUnwrapOrThrow
    \/ ApplyToPromise

SpecObject == Init /\ [][NextObject]_vars

(***************************************************************************)
(* getConfig (src/config.ts).  The module variable _config starts null.    *)
(* A call that finds it null invokes loadConfig and awaits its promise;    *)
(* its continuation assigns what was loaded to _config and returns         *)
(* _config; a call that finds it set returns it.  loadConfig builds a      *)
(* config object of its own for every invocation.  Here calls logs the     *)
(* getConfig call behind each loadConfig invocation, promises holds the    *)
(* promises of loadConfig, and output the promise of each getConfig call.  *)
(***************************************************************************)
defaultConfig == [verbose |-> TRUE]

\* getConfig() up to its await, or to its return when _config is set.
CallGetConfig ==
    /\ Len(output) < MaxCalls
    /\ fnName' = "getConfig"
    /\ IF _config = JsNull
       THEN /\ calls' = Append(calls, Len(output) + 1)
            /\ promises' = Append(promises, Pending)
            /\ output' = Append(output, Pending)
       ELSE /\ output' = Append(output, Fulfilled(_config))
            /\ UNCHANGED <<calls, promises>>
    /\ UNCHANGED <<input, heap, _config, pc, idx, results, settleLog, pall>>

\* loadConfig resolves with the object it built.
SettleLoadConfig ==
    \E j \in DOMAIN promises :
        /\ fnName = "getConfig"
        /\ promises[j] = Pending
        /\ heap' = Append(heap, defaultConfig)
        /\ promises' = [promises EXCEPT ![j] = Fulfilled(Ref(Len(heap) + 1))]
        /\ settleLog' = Append(settleLog, j)
        /\ UNCHANGED <<fnName, input, output, calls, _config, pc, idx, results, pall>>

\* _config = <the awaited value>; return _config
ResumeGetConfig ==
    \E j \in DOMAIN promises :
        /\ fnName = "getConfig"
        /\ promises[j].state = "fulfilled"
        /\ output[calls[j]] = Pending
        /\ _config' = promises[j].value
        /\ output' = [output EXCEPT ![calls[j]] = Fulfilled(promises[j].value)]
        /\ UNCHANGED <<fnName, input, calls, heap, pc, idx, results, promises, settleLog, pall>>

NextConfig ==
    \/ CallGetConfig
    \/ SettleLoadConfig
    \/ ResumeGetConfig

SpecConfig == Init /\ [][NextConfig]_vars

(***************************************************************************)
(* ErrorHandler (src/error-page/handler.ts).  A handler object holds       *)
(* references to its queries array, its customContext object and its       *)
(* environmentContext object, and the request and routing contexts it was  *)
(* given (objects of the caller, which no method writes to: held here by   *)
(* value).  The config, which no method of the claim reads or writes, is   *)
(* left out.  heap holds the handlers, arrays and objects.  An address is   *)
(* seen only through the references to it, so after every call the cells   *)
(* no handler refers to are collected and the others moved together: a     *)
(* handler stays where it was made, followed by its queries, its           *)
(* customContext and its environmentContext.  idx counts the method calls.  *)
(***************************************************************************)
Free == [kind |-> "free"]

ArrayCell(items) == [kind |-> "array", items |-> items]

ObjectCell(props) == [kind |-> "object", props |-> props]

\* { ...base, ...over }
Spread(base, over) ==
    [k \in DOMAIN base \cup DOMAIN over |-> IF k \in DOMAIN over THEN over[k] ELSE base[k]]

\* A new cell.
allocate(h, cell) == [heap |-> Append(h, cell), ref |-> Ref(Len(h) + 1)]

Handlers(h) == {k \in DOMAIN h : h[k].kind = "ErrorHandler"}

\* The fields of a handler that hold a reference, in the order of their cells.
ReferenceFields == <<"queries", "customContext", "environmentContext">>

\* The handlers are held by the caller; the other cells live as long as a
\* handler refers to them.  A cell two handlers share is kept once, with the
\* handler made first.
collect(h) ==
    LET size == Len(ReferenceFields) + 1
        first(k, f) == CHOOSE m \in Handlers(h) :
                           /\ h[m][f] = h[k][f]
                           /\ \A j \in Handlers(h) : h[j][f] = h[k][f] => m <= j
        moved(k, f) == Ref(first(k, f) + CHOOSE o \in DOMAIN ReferenceFields : ReferenceFields[o] = f)
    IN  [a \in 1..(size * Cardinality(Handlers(h))) |->
            LET k == a - ((a - 1) % size)
                o == (a - 1) % size
            IN  IF o = 0
                THEN [kind |-> "ErrorHandler",
                      queries |-> moved(k, "queries"),
                      requestContext |-> h[k].requestContext,
                      routingContext |-> h[k].routingContext,
                      environmentContext |-> moved(k, "environmentContext"),
                      customContext |-> moved(k, "customContext")]
                ELSE IF first(k, ReferenceFields[o]) = k
                     THEN h[h[k][ReferenceFields[o]].ref]
                     ELSE Free]

\* detectEnvironment(): what process reports.
detectEnvironment ==
    [platform |-> JsString("linux"), cwd |-> JsString("/app"),
     environment |-> JsString("development"),
     nodeVersion |-> JsString("22.0.0"), bunVersion |-> JsString("1.0.0")]

\* new ErrorHandler(config): the field initialisers, then the constructor.
ErrorHandler_constructor(h) ==
    LET this == allocate(h, [kind |-> "ErrorHandler"])
        queries == allocate(this.heap, ArrayCell(<<>>))
        customContext == allocate(queries.heap, ObjectCell(<<>>))
        environmentContext == allocate(customContext.heap, ObjectCell(detectEnvironment))
    IN  [heap |-> [environmentContext.heap EXCEPT ![this.ref.ref] =
                      [kind |-> "ErrorHandler",
                       queries |-> queries.ref,
                       requestContext |-> JsUndefined,
                       routingContext |-> JsUndefined,
                       environmentContext |-> environmentContext.ref,
                       customContext |-> customContext.ref]],
         ref |-> this.ref]

\* this.environmentContext = { ...this.environmentContext, ...env }
setEnvironment(h, this, env) ==
    LET merged == allocate(h, ObjectCell(Spread(h[h[this.ref].environmentContext.ref].props, env)))
    IN  [merged.heap EXCEPT ![this.ref].environmentContext = merged.ref]

setFramework(h, this, name, version) ==
    LET merged == allocate(h, ObjectCell(Spread(h[h[this.ref].environmentContext.ref].props,
                                              [framework |-> name, frameworkVersion |-> version])))
    IN  [merged.heap EXCEPT ![this.ref].environmentContext = merged.ref]

\* A Request is read into a RequestContext; a RequestContext is kept as given.
setRequest(h, this, request) ==
    IF "class" \in DOMAIN request
    THEN [h EXCEPT ![this.ref].requestContext =
             [method |-> request.method, url |-> request.url,
              headers |-> request.headers, queryParams |-> request.searchParams]]
    ELSE [h EXCEPT ![this.ref].requestContext = request]

setRouting(h, this, routing) == [h EXCEPT ![this.ref].routingContext = routing]

\* this.queries.push({ query, time, connection }): the array is written in place.
addQuery(h, this, query, time, connection) ==
    [h EXCEPT ![h[this.ref].queries.ref].items =
        Append(@, [query |-> query, time |-> time, connection |-> connection])]

clearQueries(h, this) ==
    LET empty == allocate(h, ArrayCell(<<>>))
    IN  [empty.heap EXCEPT ![this.ref].queries = empty.ref]

\* this.customContext[key] = value: the object is written in place.
addContext(h, this, key, value) ==
    [h EXCEPT ![h[this.ref].customContext.ref].props = Spread(@, [k \in {key} |-> value])]

clearContext(h, this) ==
    LET empty == allocate(h, ObjectCell(<<>>))
    IN  [empty.heap EXCEPT ![this.ref].customContext = empty.ref]

cloneSharesQueries(h, this) ==
    LET handler == ErrorHandler_constructor(h)
        context == allocate(handler.heap, ObjectCell(h[h[this.ref].customContext.ref].props))
    IN  [heap |-> [context.heap EXCEPT
                      ![handler.ref.ref].requestContext = h[this.ref].requestContext,
                      ![handler.ref.ref].routingContext = h[this.ref].routingContext,
                      ![handler.ref.ref].environmentContext = h[this.ref].environmentContext,
                      ![handler.ref.ref].queries = h[this.ref].queries,
                      ![handler.ref.ref].customContext = context.ref],
         ref |-> handler.ref]

\* The contexts are passed on by reference, the queries array and the
\* customContext object are copied.
clone(h, this) ==
    LET handler == ErrorHandler_constructor(h)
        queries == allocate(handler.heap, ArrayCell(h[h[this.ref].queries.ref].items))
        context == allocate(queries.heap, ObjectCell(h[h[this.ref].customContext.ref].props))
    IN  [heap |-> [context.heap EXCEPT
                      ![handler.ref.ref].requestContext = h[this.ref].requestContext,
                      ![handler.ref.ref].routingContext = h[this.ref].routingContext,
                      ![handler.ref.ref].environmentContext = h[this.ref].environmentContext,
                      ![handler.ref.ref].queries = queries.ref,
                      ![handler.ref.ref].customContext = context.ref],
         ref |-> handler.ref]

\* The arguments the caller passes.
WebRequests ==
    {[class |-> "Request", method |-> "GET", url |-> "http://localhost/a?b=1",
      headers |-> [accept |-> "text/html"], searchParams |-> [b |-> "1"]]}

RequestContexts == {[method |-> "POST", url |-> "/submit"]}

RoutingContexts == {[controller |-> "HomeController", routeName |-> "home"]}

EnvironmentPartials == {[environment |-> JsString("production")]}

FrameworkNames == {JsString("hono")}

FrameworkVersions == {JsUndefined}

QueryStrings == {"select 1"}

ContextKeys == {"user"}

ContextValues == {JsNumber(1)}

NewErrorHandler ==
    /\ fnName = NoCall
    /\ LET e == ErrorHandler_constructor(heap)
       IN  /\ fnName' = "new ErrorHandler"
           /\ input' = [this |-> e.ref]
           /\ output' = e.ref
           /\ heap' = collect(e.heap)
    /\ UNCHANGED <<calls, asyncVars, _config>>

\* this.method(...) has left the heap h; every setter returns this.
Called(name, this, h) ==
    /\ idx < MaxMethodCalls
    /\ idx' = idx + 1
    /\ fnName' = name
    /\ input' = [this |-> this]
    /\ output' = this
    /\ heap' = collect(h)
    /\ UNCHANGED <<calls, _config, pc, results, promises, settleLog, pall>>

SetFramework ==
    \E k \in Handlers(heap), name \in FrameworkNames, version \in FrameworkVersions :
        Called("setFramework", Ref(k), setFramework(heap, Ref(k), name, version))

SetEnvironment ==
    \E k \in Handlers(heap), env \in EnvironmentPartials :
        Called("setEnvironment", Ref(k), setEnvironment(heap, Ref(k), env))

SetRequest ==
    \E k \in Handlers(heap), request \in WebRequests \cup RequestContexts :
        Called("setRequest", Ref(k), setRequest(heap, Ref(k), request))

SetRouting ==
    \E k \in Handlers(heap), routing \in RoutingContexts :
        Called("setRouting", Ref(k), setRouting(heap, Ref(k), routing))

AddQuery ==
    \E k \in Handlers(heap), query \in QueryStrings :
        /\ Len(heap[heap[k].queries.ref].items) < MaxLen
        /\ Called("addQuery", Ref(k), addQuery(heap, Ref(k), query, JsUndefined, JsUndefined))

ClearQueries ==
    \E k \in Handlers(heap) : Called("clearQueries", Ref(k), clearQueries(heap, Ref(k)))

AddContext ==
    \E k \in Handlers(heap), key \in ContextKeys, value \in ContextValues :
        Called("addContext", Ref(k), addContext(heap, Ref(k), key, value))

ClearContext ==
    \E k \in Handlers(heap) : Called("clearContext", Ref(k), clearContext(heap, Ref(k)))

\* h2 = h.clone(), once.
Clone ==
    \E k \in Handlers(heap) :
        /\ Handlers(heap) = {k}
        /\ idx < MaxMethodCalls
        /\ idx' = idx + 1
        /\ LET e == clone(heap, Ref(k))
           IN  /\ fnName' = "clone"
               /\ input' = [this |-> Ref(k)]
               /\ output' = e.ref
               /\ heap' = collect(e.heap)
        /\ UNCHANGED <<calls, _config, pc, results, promises, settleLog, pall>>

NextHandler ==
    \/ NewErrorHandler
    \/ SetFramework
    \/ SetEnvironment
    \/ SetRequest
    \/ SetRouting
    \/ AddQuery
    \/ ClearQueries
    \/ AddContext
    \/ ClearContext
    \/ Clone

SpecHandler == Init /\ [][NextHandler]_vars

(***************************************************************************)
(* What the properties below are stated with: the expected results, read   *)
(* off the input by position, not computed by the loops above.             *)
(***************************************************************************)
HasErr(rs) == \E i \in DOMAIN rs : isErr(rs[i])

HasOk(rs) == \E i \in DOMAIN rs : isOk(rs[i])

\* Index of the first Err / the first Ok of rs.
FirstErrAt(rs) == CHOOSE i \in DOMAIN rs : isErr(rs[i]) /\ \A j \in 1..(i - 1) : isOk(rs[j])

FirstOkAt(rs) == CHOOSE i \in DOMAIN rs : isOk(rs[i]) /\ \A j \in 1..(i - 1) : isErr(rs[j])

PayloadsOf(rs) == LET oks == SelectSeq(rs, isOk) IN [i \in DOMAIN oks |-> oks[i].value]

ErrorsOf(rs) == LET errs == SelectSeq(rs, isErr) IN [i \in DOMAIN errs |-> errs[i].error]

Upto(n) == [i \in 1..n |-> i]

(***************************************************************************)
(* Properties of the asynchronous aggregators (under SpecAsync).           *)
(***************************************************************************)
\* How many times operation i has been invoked.
Invocations(i) == Cardinality({k \in DOMAIN calls : calls[k] = i})

ResolvedOk(p) == p.state = "fulfilled" /\ isOk(p.value)

ResolvedErr(p) == p.state = "fulfilled" /\ isErr(p.value)

\* The operation whose promise was the first, in time, to reject.
FirstRejectedAt ==
    LET k == CHOOSE k \in DOMAIN settleLog :
                 /\ promises[settleLog[k]].state = "rejected"
                 /\ \A j \in 1..(k - 1) : promises[settleLog[j]].state # "rejected"
    IN  settleLog[k]

\* C1: sequence and traverseAsync run their operations strictly in input
\* order: operation N+1 is started only after the promise of operation N
\* has resolved; once an operation has resolved to Err no later operation
\* is started, so with the first Err at position k exactly the first k
\* operations were invoked, and the returned promise resolves to an Err
\* carrying that error.
C1_SequentialInOrderStopsAtFirstErr ==
    fnName \in {"sequence", "traverseAsync"} =>
        /\ calls = Upto(Len(calls))
        /\ \A i \in DOMAIN promises :
               (i > 1 /\ promises[i] # NotInvoked) => ResolvedOk(promises[i - 1])
        /\ \A k \in DOMAIN promises :
               ResolvedErr(promises[k]) =>
                   /\ Len(calls) = k
                   /\ \A j \in DOMAIN promises : j > k => promises[j] = NotInvoked
                   /\ pc = "done" => output = Fulfilled(err(promises[k].value.error))
                   /\ output.state \in {"pending", "fulfilled"}
                   /\ output.state = "fulfilled" => output.value = err(promises[k].value.error)

C1_Witness ==
    /\ fnName = "sequence"
    /\ Len(input) = 3
    /\ ResolvedOk(promises[1])
    /\ ResolvedErr(promises[2])
    /\ promises[3] = NotInvoked
    /\ calls = <<1, 2>>
    /\ pc = "done"
    /\ output = Fulfilled(err(input[2].value.error))

\* C2: parallel invokes every operation exactly once, all of them before
\* any result is awaited, whether or not some operation resolves to Err or
\* rejects: from the call on, in every state, each operation has been
\* invoked once.
C2_ParallelInvokesAllOnce ==
    fnName = "parallel" =>
        /\ \A i \in DOMAIN input : Invocations(i) = 1
        /\ Len(calls) = Len(input)
        /\ \A i \in DOMAIN promises : promises[i] # NotInvoked

C2_Witness ==
    /\ fnName = "parallel"
    /\ Len(input) = 3
    /\ ResolvedErr(promises[1])
    /\ promises[2] = Pending
    /\ ResolvedOk(promises[3])
    /\ \A i \in 1..3 : Invocations(i) = 1

\* C3 as claimed: when an operation passed to parallel rejects, all
\* operations have been executed and the promise parallel returned
\* resolves to an Err that reports the error of the rejecting operation.
C3_Claimed_ParallelRejectionBecomesErr ==
    (fnName = "parallel" /\ pc = "done"
        /\ \E i \in DOMAIN promises : promises[i].state = "rejected") =>
        /\ \A i \in DOMAIN input : Invocations(i) = 1
        /\ output.state = "fulfilled"
        /\ isErr(output.value)
        /\ \E i \in DOMAIN promises :
               promises[i].state = "rejected" /\ output.value.error = promises[i].reason

\* C3 amended: when an operation passed to parallel rejects, all
\* operations have been invoked, and the promise parallel returned is
\* rejected, with the reason of the operation that rejected first in time;
\* it never resolves to a Result.
C3_ParallelRejectionRejects ==
    (fnName = "parallel" /\ \E i \in DOMAIN input : input[i].state = "rejected") =>
        /\ \A i \in DOMAIN input : Invocations(i) = 1
        /\ output.state # "fulfilled"
        /\ pc = "done" =>
               output = Rejected(promises[FirstRejectedAt].reason)

C3_Witness ==
    /\ fnName = "parallel"
    /\ Len(input) = 3
    /\ ResolvedOk(promises[1])
    /\ promises[2].state = "rejected"
    /\ promises[3].state = "rejected"
    /\ promises[3].reason # promises[2].reason
    /\ settleLog = <<1, 2, 3>>
    /\ \A i \in 1..3 : Invocations(i) = 1
    /\ pc = "done"
    /\ output = Rejected(input[2].reason)

\* C4: when every operation passed to parallel resolves to Ok, the payload
\* list of the returned Ok is in input-index order, element i being the
\* payload of ops[i], whatever the order in which the operations complete.
C4_ParallelPayloadsInInputOrder ==
    (fnName = "parallel" /\ pc = "done"
        /\ \A i \in DOMAIN input : ResolvedOk(input[i])) =>
        output = Fulfilled(ok([i \in DOMAIN input |-> input[i].value.value]))

C4_Witness ==
    /\ fnName = "parallel"
    /\ Len(input) = 3
    /\ settleLog = <<3, 1, 2>>
    /\ \A i \in 1..3 : ResolvedOk(input[i])
    /\ input[1].value.value # input[3].value.value
    /\ pc = "done"
    /\ output = Fulfilled(ok(<<input[1].value.value, input[2].value.value, input[3].value.value>>))

\* C5: combine(results) and all(results) return Err with the error of the
\* first Err of the input, in input order, if the input holds an Err, and
\* otherwise Ok with the list of all payloads in input order; Ok([]) on the
\* empty input.
C5_CombineFirstErrElseAllPayloads ==
    fnName \in {"combine", "all"} =>
        /\ HasErr(input) => output = err(input[FirstErrAt(input)].error)
        /\ ~HasErr(input) => output = ok([i \in DOMAIN input |-> input[i].value])
        /\ input = <<>> => output = ok(<<>>)

C5_Witness ==
    /\ fnName = "combine"
    /\ Len(input) = 3
    /\ isOk(input[1]) /\ isErr(input[2]) /\ isErr(input[3])
    /\ input[2].error # input[3].error
    /\ output = err(input[2].error)

\* C6: combineWithAllErrors(results) returns Err exactly when some element
\* is Err, and then with the list of the errors of all Err elements in input
\* order; otherwise Ok with the list of all payloads in input order.
C6_CombineWithAllErrorsCollectsAll ==
    fnName = "combineWithAllErrors" =>
        /\ isErr(output) <=> HasErr(input)
        /\ HasErr(input) => output = err(ErrorsOf(input))
        /\ ~HasErr(input) => output = ok([i \in DOMAIN input |-> input[i].value])

C6_Witness ==
    /\ fnName = "combineWithAllErrors"
    /\ Len(input) = 3
    /\ isErr(input[1]) /\ isOk(input[2]) /\ isErr(input[3])
    /\ input[1].error # input[3].error
    /\ output = err(<<input[1].error, input[3].error>>)

\* C7: any(results) returns the first Ok of the input, in input order, if
\* there is one; if every element is Err, an Err with the error of the last
\* element; on the empty list, an Err wrapping undefined.
C7_AnyFirstOkElseLastErr ==
    fnName = "any" =>
        /\ HasOk(input) => output = input[FirstOkAt(input)]
        /\ (~HasOk(input) /\ input # <<>>) => output = err(input[Len(input)].error)
        /\ input = <<>> => output = err(Undefined)

C7_Witness ==
    /\ fnName = "any"
    /\ Len(input) = 3
    /\ ~HasOk(input)
    /\ input[1].error # input[3].error
    /\ output = err(input[3].error)

\* C8: traverse(items, fn) applies fn to the items in input order and stops
\* at the first item whose result is Err: it returns that error and fn is
\* applied to no later item; if no item fails it returns Ok with the mapped
\* payloads in input order; traverse([], f) is Ok([]) and f is not invoked.
C8_TraverseStopsAtFirstErr ==
    fnName = "traverse" =>
        LET mapped == [i \in DOMAIN input.items |-> input.fn[input.items[i]]]
        IN  /\ HasErr(mapped) =>
                /\ output = err(mapped[FirstErrAt(mapped)].error)
                /\ calls = Upto(FirstErrAt(mapped))
            /\ ~HasErr(mapped) =>
                /\ output = ok([i \in DOMAIN mapped |-> mapped[i].value])
                /\ calls = Upto(Len(mapped))
            /\ input.items = <<>> => (output = ok(<<>>) /\ calls = <<>>)

C8_Witness ==
    /\ fnName = "traverse"
    /\ Len(input.items) = 3
    /\ isOk(input.fn[input.items[1]])
    /\ isErr(input.fn[input.items[2]])
    /\ calls = <<1, 2>>
    /\ output = err(input.fn[input.items[2]].error)

\* C9: partition(results) returns (successes, failures) whose lengths add
\* up to the length of the input; successes are the payloads of the Ok
\* elements and failures the errors of the Err elements, each in the
\* relative order of the input.
C9_PartitionSplitsInOrder ==
    fnName = "partition" =>
        /\ Len(output[1]) + Len(output[2]) = Len(input)
        /\ output[1] = PayloadsOf(input)
        /\ output[2] = ErrorsOf(input)

C9_Witness ==
    /\ fnName = "partition"
    /\ Len(input) = 3
    /\ isErr(input[1]) /\ isOk(input[2]) /\ isErr(input[3])
    /\ input[1].error # input[3].error
    /\ output = <<(<<input[2].value>>), (<<input[1].error, input[3].error>>)>>

\* C10: the functor laws of map: r.map(x => x) equals r, and
\* r.map(f).map(g) equals r.map(x => g(f(x))); on an Err every side is the
\* Err with its original error payload.
C10_MapFunctorLaws ==
    /\ (fnName = "map" /\ input.fn = [x \in Vals |-> x]) => output = input.r
    /\ (fnName = "map" /\ isErr(input.r)) => output = input.r
    /\ fnName = "map.map" =>
        /\ output = map(input.r, [x \in Vals |-> input.g[input.f[x]]])
        /\ isErr(input.r) => output = input.r
        /\ isOk(input.r) => output = ok(input.g[input.f[input.r.value]])

C10_Witness ==
    /\ fnName = "map.map"
    /\ isOk(input.r)
    /\ input.f[input.r.value] # input.r.value
    /\ input.g[input.f[input.r.value]] # input.f[input.r.value]
    /\ output = ok(input.g[input.f[input.r.value]])

\* C11: the monad laws hold for andThen: ok(a).andThen(f) is f(a) itself,
\* not f(a) wrapped again, and r.andThen(x => ok(x)) is r for every Result r.
C11_AndThenMonadLaws ==
    fnName = "andThen" =>
        /\ isOk(input.r) => output = input.fn[input.r.value]
        /\ input.fn = [x \in Vals |-> ok(x)] => output = input.r

C11_Witness ==
    /\ fnName = "andThen"
    /\ isOk(input.r)
    /\ isErr(input.fn[input.r.value])
    /\ output = input.fn[input.r.value]

\* C12: no method invokes the handler of the variant it does not own: map and
\* andThen invoke nothing on an Err (in r.andThen(f).andThen(g), g is not
\* invoked once r is an Err or f has returned an Err); mapErr, orElse and
\* unwrapOrElse invoke nothing on an Ok; match invokes exactly one handler,
\* the one of the variant, once, with the payload.
C12_NoForeignHandlerInvoked ==
    /\ fnName \in {"map", "andThen"} /\ isErr(input.r) => calls = <<>>
    /\ fnName \in {"mapErr", "orElse", "unwrapOrElse"} /\ isOk(input.r) => calls = <<>>
    /\ fnName = "andThen.andThen" =>
        /\ isErr(input.r) => calls = <<>>
        /\ isOk(input.r) /\ isErr(input.f[input.r.value]) =>
               calls = <<Invoke("f", input.r.value)>>
    /\ fnName = "match" =>
        calls = IF isOk(input.r) THEN <<Invoke("ok", input.r.value)>>
                ELSE <<Invoke("err", input.r.error)>>

C12_Witness ==
    /\ fnName = "andThen.andThen"
    /\ isOk(input.r)
    /\ isErr(input.f[input.r.value])
    /\ isOk(input.g[input.r.value])
    /\ calls = <<Invoke("f", input.r.value)>>
    /\ output = input.f[input.r.value]

\* C13: a Result is immutable: whatever methods and free functions have been
\* applied to r, in whatever order, r has the tag and the payload it was
\* constructed with.
C13_ResultImmutable ==
    heap # <<>> => heap[1] = input.r

C13_Witness ==
    /\ Len(heap) = MaxObjects
    /\ fnName = "mapErr"
    /\ heap[1] = err(0)
    /\ heap[2] = ok(0)
    /\ heap[MaxObjects] = err(1)
    /\ output = Ref(MaxObjects)

\* C14 as stated: tryCatch never throws, whatever fn and errorHandler do.
C14_Claimed_TryCatchNeverThrows ==
    fnName = "tryCatch" => output.kind = "return"

\* C14: tryCatch returns Ok(fn()) when fn returns, Err(caught) when fn throws
\* and no errorHandler is supplied, Err(errorHandler(caught)) when the
\* errorHandler returns; it throws only when errorHandler itself throws, and
\* then with the value errorHandler threw.
C14_TryCatchThrowsOnlyWhatHandlerThrows ==
    fnName = "tryCatch" =>
        LET fn == input.fn
            errorHandler == input.errorHandler
        IN  /\ fn.kind = "return" => output = Return(ok(fn.value))
            /\ fn.kind = "throw" /\ ~errorHandler.present =>
                   output = Return(err(fn.error.prim))
            /\ fn.kind = "throw" /\ errorHandler.present =>
                   LET handled == errorHandler.fn[fn.error.prim]
                   IN  IF handled.kind = "return"
                       THEN output = Return(err(handled.value))
                       ELSE output = handled

C14_Witness ==
    /\ fnName = "tryCatch"
    /\ input.fn.kind = "throw"
    /\ input.errorHandler.present
    /\ input.errorHandler.fn[input.fn.error.prim] = Throw(Thrown(1))
    /\ input.fn.error.prim = 0
    /\ output = Throw(Thrown(1))

\* What the catch clause of tryCatchAsync / fromPromise receives, if anything.
AsyncCaught ==
    IF fnName = "tryCatchAsync" /\ ThrowsWhenCalled(input.fn)
    THEN Rejected(input.fn.error.prim)
    ELSE Operation(1)

\* C15 as stated: the promise of tryCatchAsync / fromPromise never rejects.
C15_Claimed_AsyncNeverRejects ==
    fnName \in {"tryCatchAsync", "fromPromise"} => output.state # "rejected"

\* C15: the promise of tryCatchAsync / fromPromise resolves to Ok(value) when
\* the operation fulfils, to Err(reason) when it rejects or throws and no
\* errorHandler is supplied, to Err(errorHandler(reason)) when errorHandler
\* returns; it rejects only when errorHandler itself throws, and then with
\* the value errorHandler threw.
C15_AsyncRejectsOnlyWhatHandlerThrows ==
    fnName \in {"tryCatchAsync", "fromPromise"} =>
        IF pc # "done" THEN output = Pending
        ELSE LET errorHandler == input.errorHandler
             IN  /\ AsyncCaught.state = "fulfilled" =>
                        output = Fulfilled(ok(AsyncCaught.value))
                 /\ AsyncCaught.state = "rejected" /\ ~errorHandler.present =>
                        output = Fulfilled(err(AsyncCaught.reason))
                 /\ AsyncCaught.state = "rejected" /\ errorHandler.present =>
                        LET handled == errorHandler.fn[AsyncCaught.reason]
                        IN  IF handled.kind = "return"
                            THEN output = Fulfilled(err(handled.value))
                            ELSE output = Rejected(handled.error.prim)

C15_Witness ==
    /\ fnName = "fromPromise"
    /\ pc = "done"
    /\ input.promise = Rejected(0)
    /\ input.errorHandler.present
    /\ input.errorHandler.fn[0] = Return(1)
    /\ output = Fulfilled(err(1))

C17_Claimed_OrElseHandlerThrowUntouched ==
    fnName = "orElse" /\ isErr(input.r) => output = input.fn[input.r.error]

\* C18: toPromise resolves with the payload of an Ok and rejects for an Err,
\* with mapError(error) when mapError is supplied and else with an Error built
\* from String(error); unwrapOrThrow returns the payload of an Ok and throws,
\* for an Err, the error toPromise rejects with.
C18_ToPromiseAndUnwrapOrThrowAgree ==
    fnName \in {"toPromise", "unwrapOrThrow"} =>
        LET result == input.result
            failure == IF input.mapError.present
                       THEN input.mapError.fn[result.error]
                       ELSE NewError(String(result.error))
        IN  IF fnName = "toPromise"
            THEN output = IF isOk(result) THEN Fulfilled(result.value)
                          ELSE Rejected(failure)
            ELSE output = IF isOk(result) THEN Return(result.value)
                          ELSE Throw(failure)

C18_Witness ==
    /\ fnName = "toPromise"
    /\ input.result = err(0)
    /\ input.mapError.present
    /\ input.mapError.fn[0] = CustomError(1)
    /\ output = Rejected(CustomError(1))

\* C19: tap returns the very Result it was given, the object unchanged, and
\* invokes at most one callback, once: onOk with the payload when the Result
\* is an Ok and onOk is supplied, onErr with the error when it is an Err and
\* onErr is supplied.
C19_TapReturnsSameInstance ==
    fnName = "tap" =>
        /\ output = Ref(1)
        /\ heap = <<input.result>>
        /\ calls = IF isOk(input.result) /\ input.onOk
                   THEN <<Invoke("onOk", input.result.value)>>
                   ELSE IF isErr(input.result) /\ input.onErr
                        THEN <<Invoke("onErr", input.result.error)>>
                        ELSE <<>>

C19_Witness ==
    /\ fnName = "tap"
    /\ isErr(input.result)
    /\ input.onOk
    /\ input.onErr
    /\ output = Ref(1)
    /\ calls = <<Invoke("onErr", input.result.error)>>

\* C20: filter returns the Ok unchanged when the predicate holds of its
\* payload, Err(error) when it does not, and an Err unchanged without invoking
\* the predicate.
C20_FilterKeepsOrReplaces ==
    fnName = "filter" =>
        LET result == input.result
        IN  /\ isOk(result) /\ input.predicate[result.value] => output = result
            /\ isOk(result) /\ ~input.predicate[result.value] => output = err(input.error)
            /\ isErr(result) => output = result /\ calls = <<>>

C20_Witness ==
    /\ fnName = "filter"
    /\ isErr(input.result)
    /\ input.error # input.result.error
    /\ output = input.result
    /\ calls = <<>>

\* C21: swap turns Ok(v) into Err(v) and Err(e) into Ok(e), and applied twice
\* it gives back a Result with the tag and the payload of the one it started
\* from.
C21_SwapInvolution ==
    /\ fnName = "swap" =>
           output = IF isOk(input.result) THEN err(input.result.value)
                    ELSE ok(input.result.error)
    /\ fnName = "swap.swap" => output = input.result

C21_Witness ==
    /\ fnName = "swap.swap"
    /\ input.result = err(1)
    /\ output = err(1)

\* The values fromNullable must turn into an Err.
Nullish == {JsNull, JsUndefined}

\* C22: fromNullable(value, error) is Err(error) exactly when value is null or
\* undefined, and Ok(value) for every other value, the falsy 0, false and ""
\* included.
C22_FromNullableOnlyNullish ==
    fnName = "fromNullable" =>
        /\ input.value \in Nullish <=> isErr(output)
        /\ input.value \in Nullish => output = err(input.error)
        /\ input.value \notin Nullish => output.value = input.value

C22_Witness ==
    /\ fnName = "fromNullable"
    /\ input.value = JsString("")
    /\ isOk(output)
    /\ output.value = JsString("")

\* C23: flatten returns Err(outer error) when the outer Result is an Err, and
\* otherwise the inner Result: Ok(inner payload) or Err(inner error).
C23_FlattenGivesInner ==
    fnName = "flatten" =>
        LET outer == input.result
        IN  /\ isErr(outer) => output = err(outer.error)
            /\ isOk(outer) /\ isOk(outer.value) => output = ok(outer.value.value)
            /\ isOk(outer) /\ isErr(outer.value) => output = err(outer.value.error)

C23_Witness ==
    /\ fnName = "flatten"
    /\ input.result = ok(err(1))
    /\ output = err(1)

\* The objects that carry a _tag of 'Ok' or 'Err'.
TaggedObjects ==
    {JsObject(props) : props \in {pt \in PropertyTables :
        "_tag" \in DOMAIN pt /\ pt["_tag"] \in {JsString("Ok"), JsString("Err")}}}

\* C24: isResult(value) is true exactly of the non-null objects whose _tag is
\* 'Ok' or 'Err', and false (a boolean, no exception) of everything else.
C24_IsResultIffTaggedObject ==
    fnName = "isResult" =>
        /\ output \in BOOLEAN
        /\ output <=> input.value \in TaggedObjects

C24_Witness ==
    /\ fnName = "isResult"
    /\ input.value = JsObject([k \in {"_tag"} |-> JsString("ok")])
    /\ output = FALSE

\* The Results the operations of the call resolve to, by position.
Resolutions == [i \in DOMAIN input |-> input[i].value]

AllResolve == \A i \in DOMAIN input : input[i].state = "fulfilled"

\* C25: when several operations passed to parallel resolve to Err, the Err
\* that parallel returns carries the error of the failing operation with
\* the lowest input index, whatever the order of completion.
C25_ParallelLowestIndexErr ==
    (fnName = "parallel" /\ pc = "done" /\ AllResolve /\ HasErr(Resolutions)) =>
        output = Fulfilled(err(Resolutions[FirstErrAt(Resolutions)].error))

C25_Witness ==
    /\ fnName = "parallel"
    /\ pc = "done"
    /\ Len(input) = MaxLen
    /\ input[1] = Fulfilled(err(0))
    /\ input[MaxLen] = Fulfilled(err(1))
    /\ Len(settleLog) = MaxLen
    /\ settleLog[1] = MaxLen
    /\ settleLog[MaxLen] = 1
    /\ output = Fulfilled(err(0))

\* What errorHandler does with what the call caught, when it caught
\* something and errorHandler is supplied.
HandlerThrows(caught) ==
    /\ input.errorHandler.present
    /\ input.errorHandler.fn[caught].kind = "throw"

\* C26: when errorHandler itself throws while handling what fn threw, the
\* second exception leaves tryCatch, and the promise of tryCatchAsync /
\* fromPromise rejects with it.
C26_HandlerExceptionEscapes ==
    /\ (fnName = "tryCatch" /\ input.fn.kind = "throw"
            /\ HandlerThrows(input.fn.error.prim)) =>
           output = Throw(input.errorHandler.fn[input.fn.error.prim].error)
    /\ (fnName \in {"tryCatchAsync", "fromPromise"} /\ pc = "done"
            /\ AsyncCaught.state = "rejected" /\ HandlerThrows(AsyncCaught.reason)) =>
           output = Rejected(input.errorHandler.fn[AsyncCaught.reason].error.prim)

C26_Witness ==
    /\ fnName = "tryCatchAsync"
    /\ pc = "done"
    /\ input.fn = Rejected(0)
    /\ input.errorHandler.present
    /\ input.errorHandler.fn[0] = Throw(Thrown(1))
    /\ output = Rejected(1)

\* C27: for operations whose promises all resolve, sequence(ops) and
\* parallel(ops) resolve to the same Result, the one the resolutions fix by
\* position (the first Err, else all payloads in input order); they differ
\* in the operations they invoke: sequence those up to the first Err,
\* parallel all of them.
C27_SequenceAndParallelAgree ==
    (fnName \in {"sequence", "parallel"} /\ pc = "done" /\ AllResolve) =>
        /\ output = Fulfilled(IF HasErr(Resolutions)
                              THEN err(Resolutions[FirstErrAt(Resolutions)].error)
                              ELSE ok([i \in DOMAIN input |-> Resolutions[i].value]))
        /\ calls = IF fnName = "sequence" /\ HasErr(Resolutions)
                   THEN Upto(FirstErrAt(Resolutions))
                   ELSE Upto(Len(input))

C27_Witness ==
    /\ fnName = "sequence"
    /\ pc = "done"
    /\ Len(input) = MaxLen
    /\ AllResolve
    /\ ~HasErr(Resolutions)
    /\ Resolutions[1].value # Resolutions[MaxLen].value
    /\ output = Fulfilled(ok([i \in DOMAIN input |-> Resolutions[i].value]))

\* C28: combine(rs) is Ok exactly when combineWithAllErrors(rs) is; then both
\* carry the same payload list; when they are Err, the error of combine is the
\* first element of the error list of combineWithAllErrors.
C28_CombineAgreesWithAllErrors ==
    fnName = "combine,combineWithAllErrors" =>
        /\ isOk(output.combine) <=> isOk(output.combineWithAllErrors)
        /\ isOk(output.combine) => output.combine.value = output.combineWithAllErrors.value
        /\ isErr(output.combine) =>
               output.combine.error = output.combineWithAllErrors.error[1]

C28_Witness ==
    /\ fnName = "combine,combineWithAllErrors"
    /\ Len(input) = MaxLen
    /\ isOk(input[1])
    /\ output.combine = err(1)
    /\ output.combineWithAllErrors = err(<<1, 0>>)

\* C29 as stated: across any interleaving of getConfig() calls, loadConfig
\* is invoked at most once and all the calls resolve to the same config
\* object.
C29_Claimed_LoadConfigOnceSameObject ==
    fnName = "getConfig" =>
        /\ Len(calls) <= 1
        /\ \A i, j \in DOMAIN output :
               (output[i].state = "fulfilled" /\ output[j].state = "fulfilled") =>
                   output[i].value = output[j].value

\* What a handler holds: its queries, custom context, request, routing and
\* environment, read through its references.
HandlerState(h, k) ==
    [queries |-> h[h[k].queries.ref].items,
     context |-> h[h[k].customContext.ref].props,
     request |-> h[k].requestContext,
     routing |-> h[k].routingContext,
     environment |-> h[h[k].environmentContext.ref].props]

\* C30: after h2 = h.clone() the two handlers are independent: a call of
\* addQuery, clearQueries, addContext, clearContext, setRequest, setRouting,
\* setFramework or setEnvironment on one handler leaves the queries, custom
\* context, request, routing and environment of the other as they were,
\* and clone leaves h as it was and gives h2 the values h holds.
C30_CloneIndependent ==
    [][/\ \A k \in Handlers(heap) :
              (fnName' = "clone" \/ Ref(k) # input'.this) =>
                  /\ k \in Handlers(heap')
                  /\ HandlerState(heap', k) = HandlerState(heap, k)
       /\ fnName' = "clone" =>
              HandlerState(heap', output'.ref) = HandlerState(heap, input'.this.ref)]_vars

C30_Witness ==
    /\ fnName = "addQuery"
    /\ \E k, m \in Handlers(heap) :
           /\ input.this = Ref(k)
           /\ m # k
           /\ Len(heap[heap[k].queries.ref].items) = MaxLen
           /\ heap[heap[m].queries.ref].items = <<>>
           /\ heap[m].environmentContext = heap[k].environmentContext

====
